---- MODULE Spec2Model ----
(***************************************************************************)
(* Round-number search of circuit_parameters_gen/calc_round_numbers.py:    *)
(* the security-bound evaluator sat_inequiv_alpha, the three cost          *)
(* functions, the brute-force double loop of find_FD_round_numbers and the *)
(* finalizer calc_final_numbers_fixed / get_parameters.                    *)
(*                                                                         *)
(* Floating-point values are modelled in fixed point: a real v is the      *)
(* integer floor(v * SCALE).  The logarithms math.log(x, b) the code takes *)
(* are tabulated in that unit for the arguments the inputs below produce.  *)
(***************************************************************************)
EXTENDS Integers, Sequences, FiniteSets, TLC

VARIABLES
    p, t, alpha, M, cost_function, security_margin, \* arguments of the call
    entry,        \* function the caller entered: get_parameters or find_FD_round_numbers
    order,        \* traversal order of the outer loop ("asc" is the code's)
    pc,           \* position in the code
    outer_it,     \* number of values the outer range(1, 500) has produced
    inner_it,     \* next value of the inner range(4, 100)
    R_P_t, R_F_t, \* loop variables
    R_P, R_F, min_cost, max_cost_rf, \* retained best
    last_sat,     \* arguments and result of the latest sat_inequiv call
    costed,       \* number of candidates costed so far
    ret,          \* what the entered function returned
    prev          \* arguments and result of the previous call

vars == <<p, t, alpha, M, cost_function, security_margin, entry, order, pc,
          outer_it, inner_it, R_P_t, R_F_t, R_P, R_F, min_cost, max_cost_rf,
          last_sat, costed, ret, prev>>

(***************************************************************************)
(* Fixed-point arithmetic                                                  *)
(***************************************************************************)
SCALE == 10000

Fix(i) == i * SCALE

Floor(v) == v \div SCALE

Ceil(v) == -((-v) \div SCALE)

Min(a, b) == IF a <= b THEN a ELSE b

Max(a, b) == IF a >= b THEN a ELSE b

\* product of two fixed-point values
MulFix(a, b) == (a * b) \div SCALE

\* math.log(x, b) for b # 1, in fixed point
Log(x, b) ==
    CASE x = b -> Fix(1)
      [] x = 2147483647 /\ b = 2 -> 309999
      [] x = 2 /\ b = 5 -> 4306
      [] x = 597 /\ b = 2 -> 92215
      [] x = 597 /\ b = 5 -> 39715

(***************************************************************************)
(* sat_inequiv_alpha                                                       *)
(***************************************************************************)
\* n = ceil(log(p, 2))
n_bits(pp) == Ceil(Log(pp, 2))

\* N = int(n * t)
N_cells(pp, tt) == n_bits(pp) * tt

\* alpha > 0, statistical bound
Pos_R_F_1(pp, tt, aa, MM) ==
    IF MM <= Floor(Log(pp, 2) - (Fix(aa - 1) \div 2)) * (tt + 1) THEN 6 ELSE 10

\* alpha > 0, interpolation bound
Pos_R_F_2(pp, tt, RP, aa, MM) ==
    1 + Ceil(Log(2, aa) * Min(MM, n_bits(pp))) + Ceil(Log(tt, aa)) - RP

\* alpha > 0, first Groebner bound (a fixed-point value)
Pos_R_F_3(pp, tt, RP, aa, MM) ==
    Fix(1) + MulFix(Log(2, aa), Min(Fix(MM) \div 3, Log(pp, 2) \div 2)) - Fix(RP)

\* alpha > 0, second Groebner bound (a fixed-point value)
Pos_R_F_4(pp, tt, RP, aa, MM) ==
    Fix(tt - 1)
    + Min((Log(2, aa) * MM) \div (tt + 1), MulFix(Log(2, aa), Log(pp, 2)) \div 2)
    - Fix(RP)

Pos_R_F_max(pp, tt, RP, aa, MM) ==
    Max(Max(Pos_R_F_1(pp, tt, aa, MM), Pos_R_F_2(pp, tt, RP, aa, MM)),
        Max(Ceil(Pos_R_F_3(pp, tt, RP, aa, MM)), Ceil(Pos_R_F_4(pp, tt, RP, aa, MM))))

\* alpha = -1, statistical bound
Inv_R_F_1(pp, tt, MM) ==
    IF MM <= Floor(Log(pp, 2) - Fix(2)) * (tt + 1) THEN 6 ELSE 10

\* alpha = -1, interpolation bound
Inv_R_P_1(pp, tt, RF, MM) ==
    1 + Ceil(Fix(Min(MM, n_bits(pp))) \div 2) + Ceil(Log(tt, 2)) - Floor(RF * Log(tt, 2))

\* alpha = -1, the same expression once more
Inv_R_P_2(pp, tt, RF, MM) ==
    1 + Ceil(Fix(Min(MM, n_bits(pp))) \div 2) + Ceil(Log(tt, 2)) - Floor(RF * Log(tt, 2))

\* Inv_R_P_3 with the floor(R_F * log(t, 2)) term left out
Inv_R_P_3_no_floor(pp, tt, RF, MM) ==
    tt - 1 + Ceil(Log(tt, 2))
    + Min(Ceil(Fix(MM) \div (tt + 1)), Ceil(Log(pp, 2) \div 2))

\* alpha = -1, Groebner bound
Inv_R_P_3(pp, tt, RF, MM) ==
    tt - 1 + Ceil(Log(tt, 2))
    + Min(Ceil(Fix(MM) \div (tt + 1)), Ceil(Log(pp, 2) \div 2))
    - Floor(RF * Log(tt, 2))

Inv_R_P_max(pp, tt, RF, MM) ==
    Max(Max(Inv_R_P_1(pp, tt, RF, MM), Inv_R_P_2(pp, tt, RF, MM)), Inv_R_P_3(pp, tt, RF, MM))

\* sat_inequiv_alpha without its else branch: every alpha that is not
\* positive is evaluated as the inverse S-box
sat_inequiv_no_else(pp, tt, RF, RP, aa, MM) ==
    IF aa > 0
    THEN IF aa = 1 THEN "ZeroDivisionError"
         ELSE IF RF >= Pos_R_F_max(pp, tt, RP, aa, MM) THEN "True" ELSE "False"
    ELSE IF RF >= Inv_R_F_1(pp, tt, MM) /\ RP >= Inv_R_P_max(pp, tt, RF, MM)
         THEN "True" ELSE "False"

\* The result is "True" or "False"; "exit" stands for print + exit(1), and
\* "ZeroDivisionError" for the exception math.log(2, 1) raises.
sat_inequiv_alpha(pp, tt, RF, RP, aa, MM) ==
    IF aa > 0
    THEN IF aa = 1 THEN "ZeroDivisionError"
         ELSE IF RF >= Pos_R_F_max(pp, tt, RP, aa, MM) THEN "True" ELSE "False"
    ELSE IF aa = -1
    THEN IF RF >= Inv_R_F_1(pp, tt, MM) /\ RP >= Inv_R_P_max(pp, tt, RF, MM)
         THEN "True" ELSE "False"
    ELSE "exit"

(***************************************************************************)
(* Cost functions                                                          *)
(***************************************************************************)
get_sbox_cost(RF, RP, NN, tt) == tt * RF + RP

\* get_size_cost with N and n exchanged
get_size_cost_swapped(RF, RP, NN, tt) == (Ceil(Fix(NN) \div tt) * RF) + (NN * RP)

\* n = ceil(float(N) / t)
get_size_cost(RF, RP, NN, tt) == (NN * RF) + (Ceil(Fix(NN) \div tt) * RP)

get_depth_cost(RF, RP, NN, tt) == RF + RP

Cost(cf, RF, RP, NN, tt) ==
    CASE cf = "get_sbox_cost" -> get_sbox_cost(RF, RP, NN, tt)
      [] cf = "get_size_cost" -> get_size_cost(RF, RP, NN, tt)
      [] cf = "get_depth_cost" -> get_depth_cost(RF, RP, NN, tt)

(***************************************************************************)
(* find_FD_round_numbers                                                   *)
(***************************************************************************)
\* min_cost is float("inf") until a candidate is retained
Inf == [inf |-> TRUE, val |-> 0]

Num(c) == [inf |-> FALSE, val |-> c]

\* the margin adding one full round instead of two
MarginRF_one(f) == f + 1

\* R_F_t += 2
MarginRF(f) == f + 2

\* R_P_t = int(ceil(float(R_P_t) * 1.075))
MarginRP(r) == Ceil(r * 10750)

\* the retain rule without its tie-break
BetterNoTie(cost, RFt, mc, mcrf) == mc.inf \/ cost < mc.val

\* the retain rule replacing the best on every tie
BetterOrEqual(cost, RFt, mc, mcrf) == mc.inf \/ cost <= mc.val

\* (cost < min_cost) or ((cost == min_cost) and (R_F_t < max_cost_rf))
Better(cost, RFt, mc, mcrf) ==
    \/ mc.inf \/ cost < mc.val
    \/ (~mc.inf /\ cost = mc.val) /\ RFt < mcrf

RangeRP == 500

RangeRFLow == 4

RangeRF == 100

\* the k-th value (k = 1, 2, ...) the outer loop takes; "asc" is range(1, 500)
OuterValue(ord, k) ==
    CASE ord = "asc" -> k
      [] ord = "desc" -> RangeRP - k
      [] ord = "stride" -> ((k * 7) % (RangeRP - 1)) + 1

NoCall == [R_F |-> 0, R_P |-> 0, res |-> "none"]

NoRet == [kind |-> "none", R_F |-> 0, R_P |-> 0, min_sbox_cost |-> 0, min_size_cost |-> 0]

NoPrev == [called |-> FALSE, M |-> 0, cost_function |-> "", security_margin |-> FALSE,
           entry |-> "", order |-> "", ret |-> NoRet, min_cost |-> Inf]

\* lines 72-75
EnterSearch ==
    /\ pc = "outer" /\ outer_it = 0 /\ inner_it = RangeRFLow
    /\ R_P_t = 0 /\ R_F_t = 0
    /\ R_P = 0 /\ R_F = 0 /\ min_cost = Inf /\ max_cost_rf = 0
    /\ last_sat = NoCall /\ costed = 0 /\ ret = NoRet

\* line 77: the outer loop takes its next value
OuterNext ==
    /\ pc = "outer" /\ outer_it < RangeRP - 1
    /\ outer_it' = outer_it + 1
    /\ R_P_t' = OuterValue(order, outer_it + 1)
    /\ inner_it' = RangeRFLow
    /\ pc' = "inner"
    /\ UNCHANGED <<p, t, alpha, M, cost_function, security_margin, entry, order,
                   R_F_t, R_P, R_F, min_cost, max_cost_rf, last_sat, costed, ret, prev>>

\* line 77: the outer range is exhausted
OuterDone ==
    /\ pc = "outer" /\ outer_it = RangeRP - 1
    /\ pc' = "return"
    /\ UNCHANGED <<p, t, alpha, M, cost_function, security_margin, entry, order,
                   outer_it, inner_it, R_P_t, R_F_t, R_P, R_F, min_cost, max_cost_rf,
                   last_sat, costed, ret, prev>>

\* lines 78-91: one iteration of the inner loop
InnerStep ==
    /\ pc = "inner" /\ inner_it < RangeRF
    /\ inner_it' = inner_it + 1
    /\ IF inner_it % 2 # 0
       THEN /\ R_F_t' = inner_it
            /\ UNCHANGED <<pc, R_P_t, R_P, R_F, min_cost, max_cost_rf, last_sat, costed>>
       ELSE LET res == sat_inequiv_alpha(p, t, inner_it, R_P_t, alpha, M)
                RFm == IF security_margin THEN MarginRF(inner_it) ELSE inner_it
                RPm == IF security_margin THEN MarginRP(R_P_t) ELSE R_P_t
                cost == Cost(cost_function, RFm, RPm, N_cells(p, t), t)
            IN  /\ last_sat' = [R_F |-> inner_it, R_P |-> R_P_t, res |-> res]
                /\ IF res = "True"
                   THEN /\ R_F_t' = RFm
                        /\ R_P_t' = RPm
                        /\ costed' = costed + 1
                        /\ pc' = pc
                        /\ IF Better(cost, RFm, min_cost, max_cost_rf)
                           THEN /\ R_P' = RPm
                                /\ R_F' = RFm
                                /\ min_cost' = Num(cost)
                                /\ max_cost_rf' = RFm
                           ELSE UNCHANGED <<R_P, R_F, min_cost, max_cost_rf>>
                   ELSE /\ R_F_t' = inner_it
                        /\ pc' = IF res = "False" THEN pc ELSE res
                        /\ UNCHANGED <<R_P_t, R_P, R_F, min_cost, max_cost_rf, costed>>
    /\ UNCHANGED <<p, t, alpha, M, cost_function, security_margin, entry, order,
                   outer_it, ret, prev>>

\* line 78: the inner range is exhausted
InnerDone ==
    /\ pc = "inner" /\ inner_it = RangeRF
    /\ pc' = "outer"
    /\ UNCHANGED <<p, t, alpha, M, cost_function, security_margin, entry, order,
                   outer_it, inner_it, R_P_t, R_F_t, R_P, R_F, min_cost, max_cost_rf,
                   last_sat, costed, ret, prev>>

\* line 92: return (int(R_F), int(R_P))
Return ==
    /\ pc = "return"
    /\ ret' = [kind |-> "pair", R_F |-> R_F, R_P |-> R_P,
               min_sbox_cost |-> 0, min_size_cost |-> 0]
    /\ pc' = IF entry = "get_parameters" THEN "final" ELSE "done"
    /\ UNCHANGED <<p, t, alpha, M, cost_function, security_margin, entry, order,
                   outer_it, inner_it, R_P_t, R_F_t, R_P, R_F, min_cost, max_cost_rf,
                   last_sat, costed, prev>>

(***************************************************************************)
(* calc_final_numbers_fixed and get_parameters                             *)
(***************************************************************************)
\* lines 101-112 and 117-120
Finalize ==
    /\ pc = "final"
    /\ ret' = [kind |-> "tuple", R_F |-> ret.R_F, R_P |-> ret.R_P,
               min_sbox_cost |-> Cost(cost_function, ret.R_F, ret.R_P, N_cells(p, t), t),
               min_size_cost |-> get_size_cost(ret.R_F, ret.R_P, N_cells(p, t), t)]
    /\ pc' = "done"
    /\ UNCHANGED <<p, t, alpha, M, cost_function, security_margin, entry, order,
                   outer_it, inner_it, R_P_t, R_F_t, R_P, R_F, min_cost, max_cost_rf,
                   last_sat, costed, prev>>

(***************************************************************************)
(* Callers                                                                 *)
(***************************************************************************)
Primes == {2147483647}

Widths == {2, 597}

\* exponents the search runs for
SearchExponents == {5, -1}

\* exponents that end the first bound check: math.log(2, 1) raises, 0 and -2
\* reach the else branch
AbortExponents == {1, 0, -2}

LowLevel == 10

HighLevel == 1500

Levels == {LowLevel, HighLevel}

Entries == {<<"get_parameters", "get_sbox_cost">>,
            <<"find_FD_round_numbers", "get_size_cost">>,
            <<"find_FD_round_numbers", "get_depth_cost">>}

\* (t, alpha, M) of the searches that run to the end
SearchCases ==
    {<<2, 5, HighLevel>>, <<2, -1, LowLevel>>, <<597, 5, LowLevel>>,
     <<597, 5, HighLevel>>, <<597, -1, HighLevel>>}

Cases == SearchCases \cup (Widths \X AbortExponents \X Levels)

\* one call of get_parameters, or of find_FD_round_numbers with another metric
Init ==
    /\ p \in Primes
    /\ \E c \in Cases : t = c[1] /\ alpha = c[2] /\ M = c[3]
    /\ security_margin \in BOOLEAN
    /\ \E e \in Entries : entry = e[1] /\ cost_function = e[2]
    /\ order = "asc"
    /\ prev = NoPrev
    /\ EnterSearch

Next ==
    \/ OuterNext
    \/ OuterDone
    \/ InnerStep
    \/ InnerDone
    \/ Return
    \/ Finalize

Spec == Init /\ [][Next]_vars

\* what a caller keeps of a finished call
Finished ==
    [called |-> TRUE, M |-> M, cost_function |-> cost_function,
     security_margin |-> security_margin, entry |-> entry, order |-> order,
     ret |-> ret, min_cost |-> min_cost]

\* A caller that, after get_parameters returned, calls again for the same
\* (p, t, alpha): v = "size" runs the size-cost search, v = "level" asks for a
\* higher security level, v = "margin" turns the security margin on.
SecondCall(v) ==
    /\ pc = "done" /\ ~prev.called /\ entry = "get_parameters"
    /\ prev' = Finished
    /\ CASE v = "size" ->
              /\ entry' = "find_FD_round_numbers"
              /\ cost_function' = "get_size_cost"
              /\ UNCHANGED <<M, security_margin>>
         [] v = "level" ->
              /\ M' \in {m \in Levels : m > M}
              /\ UNCHANGED <<entry, cost_function, security_margin>>
         [] v = "margin" ->
              /\ ~security_margin
              /\ security_margin' = TRUE
              /\ UNCHANGED <<entry, cost_function, M>>
    /\ pc' = "outer" /\ outer_it' = 0 /\ inner_it' = RangeRFLow
    /\ R_P_t' = 0 /\ R_F_t' = 0
    /\ R_P' = 0 /\ R_F' = 0 /\ min_cost' = Inf /\ max_cost_rf' = 0
    /\ last_sat' = NoCall /\ costed' = 0 /\ ret' = NoRet
    /\ UNCHANGED <<p, t, alpha, order>>

InitPair ==
    /\ p \in Primes /\ t \in Widths /\ alpha \in SearchExponents /\ M \in Levels
    /\ security_margin \in BOOLEAN
    /\ entry = "get_parameters" /\ cost_function = "get_sbox_cost"
    /\ order = "asc"
    /\ prev = NoPrev
    /\ EnterSearch

\* get_parameters, then the independent size-cost search
NextSize ==
    \/ Next
    \/ SecondCall("size")

SpecSize == InitPair /\ [][NextSize]_vars

\* get_parameters at the low level, then at the high level
InitLevel == InitPair /\ M = LowLevel

NextLevel ==
    \/ Next
    \/ SecondCall("level")

SpecLevel == InitLevel /\ [][NextLevel]_vars

\* get_parameters without the margin, then with it
InitMargin == InitPair /\ ~security_margin

NextMargin ==
    \/ Next
    \/ SecondCall("margin")

SpecMargin == InitMargin /\ [][NextMargin]_vars

\* get_parameters for the inverse S-box: every bound check of the search is
\* a call of the alpha = -1 branch of sat_inequiv_alpha
InitInverse == InitPair /\ alpha = -1

SpecInverse == InitInverse /\ [][Next]_vars

\* The same call once more with the rows of the outer loop taken in another
\* order (the reduction of a parallel implementation).
ReorderedCall ==
    /\ pc = "done" /\ ~prev.called
    /\ prev' = Finished
    /\ order' \in {"desc", "stride"}
    /\ pc' = "outer" /\ outer_it' = 0 /\ inner_it' = RangeRFLow
    /\ R_P_t' = 0 /\ R_F_t' = 0
    /\ R_P' = 0 /\ R_F' = 0 /\ min_cost' = Inf /\ max_cost_rf' = 0
    /\ last_sat' = NoCall /\ costed' = 0 /\ ret' = NoRet
    /\ UNCHANGED <<p, t, alpha, M, cost_function, security_margin, entry>>

InitReorder ==
    /\ p \in Primes /\ M = HighLevel
    /\ \E w \in {<<2, 5>>, <<597, -1>>} : t = w[1] /\ alpha = w[2]
    /\ security_margin \in BOOLEAN
    /\ \E e \in Entries : entry = e[1] /\ cost_function = e[2]
    /\ order = "asc"
    /\ prev = NoPrev
    /\ EnterSearch

NextReorder ==
    \/ Next
    \/ ReorderedCall

SpecReorder == InitReorder /\ [][NextReorder]_vars

(***************************************************************************)
(* Properties                                                              *)
(***************************************************************************)
EvenRF == {f \in RangeRFLow..(RangeRF - 1) : f % 2 = 0}

Rows == 1..(RangeRP - 1)

ValidAlpha == alpha > 0 \/ alpha = -1

Satisfies(f, r) == sat_inequiv_alpha(p, t, f, r, alpha, M) = "True"

SomeCandidate == \E r \in Rows : \E f \in EvenRF : Satisfies(f, r)

\* the configuration that is scored for a satisfying pair
Scored(c) ==
    IF security_margin THEN <<c[1] + 2, ((c[2] * 1075) + 999) \div 1000>> ELSE c

ScoredCost(c) == Cost(cost_function, Scored(c)[1], Scored(c)[2], N_cells(p, t), t)

Returned == ret.kind # "none"

\* C1: when no pair of the bounded ranges satisfies the bounds, the call
\* does not return (0, 0) as a result: a returned (0, 0) never stands for an
\* exhausted search.
C1_ExhaustionSignalled ==
    (ValidAlpha /\ Returned /\ ret.R_F = 0 /\ ret.R_P = 0) => SomeCandidate

\* C2: with an alpha that is neither positive nor -1 the first bound check
\* ends the process: nothing is costed, nothing is retained, nothing is
\* returned, and the loops never get past their first candidate.
C2_InvalidExponentAborts ==
    ~ValidAlpha =>
        /\ ~Returned
        /\ pc \in {"outer", "inner", "exit"}
        /\ costed = 0 /\ min_cost = Inf /\ R_F = 0 /\ R_P = 0 /\ max_cost_rf = 0
        /\ last_sat.res \in {"none", "exit"}
        /\ (last_sat.res = "exit") <=> (pc = "exit")
        /\ outer_it <= 1 /\ inner_it <= RangeRFLow + 1

C2_Witness == alpha = 0 /\ pc = "exit" /\ last_sat.res = "exit"

\* C3: when some pair satisfies the bounds, the returned pair is the scored
\* configuration of a satisfying pair, no scored configuration of a
\* satisfying pair costs less, and none of the same cost has a smaller R_F.
C3_SearchOptimal ==
    (Returned /\ order = "asc" /\ SomeCandidate) =>
        LET best == <<ret.R_F, ret.R_P>>
            bc == Cost(cost_function, ret.R_F, ret.R_P, N_cells(p, t), t)
        IN  /\ \E c \in EvenRF \X Rows : Scored(c) = best /\ Satisfies(c[1], c[2])
            /\ \A d \in EvenRF \X Rows :
                 \/ ScoredCost(d) > bc
                 \/ ScoredCost(d) = bc /\ Scored(d)[1] >= ret.R_F
                 \/ ~Satisfies(d[1], d[2])

\* a search returned whose minimum cost is shared by a configuration with
\* more full rounds, under the margin
C3_Witness ==
    /\ Returned /\ security_margin /\ cost_function = "get_depth_cost"
    /\ \E c \in EvenRF \X Rows :
         /\ ScoredCost(c) = get_depth_cost(ret.R_F, ret.R_P, N_cells(p, t), t)
         /\ Scored(c)[1] > ret.R_F
         /\ Satisfies(c[1], c[2])

\* C4: the size cost get_parameters derives from the S-box search equals the
\* cost of the pair an independent size-cost search returns for the same
\* inputs, which is the same pair and that search's minimum.
C4_SizeCostEquivalent ==
    (prev.called /\ Returned /\ cost_function = "get_size_cost") =>
        /\ ret.R_F = prev.ret.R_F /\ ret.R_P = prev.ret.R_P
        /\ prev.ret.min_size_cost = get_size_cost(ret.R_F, ret.R_P, N_cells(p, t), t)
        /\ ~min_cost.inf => min_cost.val = prev.ret.min_size_cost

C4_Witness ==
    /\ prev.called /\ Returned /\ cost_function = "get_size_cost"
    /\ prev.entry = "get_parameters" /\ prev.M = M
    /\ prev.security_margin = security_margin
    /\ ~min_cost.inf /\ ret.R_F >= 6 /\ ret.R_P > 1

\* C5: for the same (p, t, alpha, security_margin), the min_sbox_cost of
\* get_parameters for a higher security level is not smaller.
C5_LevelMonotone ==
    (prev.called /\ ret.kind = "tuple" /\ prev.M <= M) =>
        ret.min_sbox_cost >= prev.ret.min_sbox_cost

\* C6: the R_F get_parameters returns with the margin is at least 2 more than
\* the R_F it returns without it.
C6_MarginInflation ==
    (prev.called /\ ret.kind = "tuple" /\ security_margin /\ ~prev.security_margin) =>
        ret.R_F >= prev.ret.R_F + 2

\* C7: the retained best R_F is even at every step and in the returned pair,
\* and the returned R_P is at least 1 when some pair satisfies the bounds.
C7_EvenRetained ==
    /\ R_F % 2 = 0
    /\ max_cost_rf % 2 = 0
    /\ Returned => /\ ret.R_F % 2 = 0
                   /\ SomeCandidate => ret.R_P >= 1

C7_Witness ==
    /\ Returned /\ security_margin /\ ret.R_F >= 6 /\ ret.R_P >= 1 /\ costed > 0

\* C8: for alpha = -1 the evaluator answers True exactly when R_F reaches the
\* statistical bound and R_P reaches the largest partial-round bound.  For
\* p = 2^31 - 1 and t = 2 the bounds are, in integers: 6 full rounds if
\* M <= 28 * 3, else 10; 2 + ceil(min(M, 31) / 2) - R_F and
\* 2 + min(ceil(M / 3), 16) - R_F partial rounds.  For M = 10, (6, 1) passes
\* and (4, 1) fails.
C8_InverseEvaluator ==
    (alpha = -1 /\ last_sat.res # "none") =>
        LET f == last_sat.R_F
            r == last_sat.R_P
            yes == last_sat.res = "True"
        IN  /\ last_sat.res \in {"True", "False"}
            /\ yes <=> /\ f >= Inv_R_F_1(p, t, M)
                       /\ r >= Inv_R_P_1(p, t, f, M)
                       /\ r >= Inv_R_P_2(p, t, f, M)
                       /\ r >= Inv_R_P_3(p, t, f, M)
            /\ (p = 2147483647 /\ t = 2) =>
                 (yes <=> /\ f >= (IF M <= 84 THEN 6 ELSE 10)
                          /\ r >= 2 + ((Min(M, 31) + 1) \div 2) - f
                          /\ r >= 2 + Min((M + 2) \div 3, 16) - f)
            /\ (p = 2147483647 /\ t = 2 /\ M = 10 /\ f = 6 /\ r = 1) => yes
            /\ (p = 2147483647 /\ t = 2 /\ M = 10 /\ f = 4 /\ r = 1) => ~yes

C8_Witness ==
    /\ alpha = -1 /\ p = 2147483647 /\ t = 2 /\ M = 10
    /\ last_sat = [R_F |-> 6, R_P |-> 1, res |-> "True"]

\* C9: every bound check is made on the current value of the outer loop and
\* an even value of the inner loop, never on a margined value.
C9_NoMarginFeedback ==
    last_sat.res # "none" =>
        /\ last_sat.R_P = OuterValue(order, outer_it)
        /\ last_sat.R_P \in Rows
        /\ last_sat.R_F \in EvenRF

\* C10: taking the rows of the outer loop in another order returns the same
\* pair as the ascending traversal.
C10_OrderIndependent ==
    (prev.called /\ Returned /\ order # "asc" /\ prev.order = "asc") =>
        ret.R_F = prev.ret.R_F /\ ret.R_P = prev.ret.R_P

C10_Witness ==
    /\ prev.called /\ Returned /\ order = "stride" /\ prev.order = "asc"
    /\ security_margin /\ cost_function = "get_depth_cost"
    /\ ret.R_F >= 6 /\ ret.R_P >= 1

====
